---- MODULE Spec2Model ----
(***************************************************************************)
(* A model of the logr front end (the Sugar logger), of the dispatcher it   *)
(* drives (level filters, target queues, workers and Shutdown) and of the  *)
(* JSON formatter.                                                         *)
(*                                                                         *)
(*   SpecFields  the field maps of derived loggers (WithField, WithFields) *)
(*               on a heap of Go maps that callers may alias.              *)
(*   SpecSugar   one caller making any of the Sugar logging calls.         *)
(*   Spec        concurrent producers, the target workers and Shutdown.    *)
(*   SpecLive    Spec, with Shutdown running on to its return.             *)
(*   SpecFail    Spec, with formatters and writers that may fail.          *)
(*   SpecJSON    the keys of the object the JSON formatter emits.          *)
(***************************************************************************)
EXTENDS Integers, Sequences, FiniteSets, TLC

\* ------------------------------------------------------------------ bounds
MaxLoggers == 3      \* Sugar values alive at once, the root logger included
MaxHeap == 3         \* Go maps allocated
MaxCallerMaps == 1   \* maps application code builds itself
MaxCallerWrites == 1 \* writes application code makes into maps it built

MaxSugarCalls == 2   \* logging calls made under SpecSugar
MaxCalls == 2        \* logging calls made under Spec, all producers together
QueueCap == 1        \* capacity of a target's queue, in records
MaxRepeats == 1      \* calls of Shutdown after the first
MaxCtxFields == 2    \* context fields of the record the JSON formatter is given

Keys == {"a", "b"}
Vals == {1, 2}

VARIABLES
    heap,        \* the Go maps allocated so far: heap[r] is the map behind reference r
    loggers,     \* the Sugar values created so far; loggers[1] is NewLogger()
    callerMaps,  \* references to the maps application code built and still holds
    callerWrites,\* how many writes application code has made into its maps
    origin,      \* history: the parent and the call loggers[i] was derived by
    lastCall,    \* history: the WithField/WithFields call just made, with the parent's
                 \* fields F and the argument's pairs G as they were at the call
    targets,     \* the registered targets, each a filter and a queue capacity
    state,       \* the dispatcher's lifecycle state
    queue,       \* queue[t]: the records waiting in target t's queue
    written,     \* written[t]: the records target t's writer has received
    errors,      \* the invocations of the error-reporting hook, in order
    exits,       \* the status codes the exit hook was invoked with, in order
    panics,      \* how many panics were raised to a logging call's caller
    shutdownErr, \* what Shutdown returned ("none" while it has not returned)
    sent,        \* history: sent[p] lists the calls producer p has made
    last,        \* history: the logging call just made and what it did, in order
    again,       \* what each repeated call of Shutdown returned, in order
    dropped,     \* history: dropped[t] lists the records target t dropped, queue full
    abandoned,   \* abandoned[t]: the records of target t the drain timeout report counts
    failed,      \* history: failed[t] lists the records target t failed to format or write
    json,        \* the JSON formatter's configuration
    ctx,         \* the context fields of the record being formatted
    out          \* the key of each member Format last emitted, in order

fieldVars == <<heap, loggers, callerMaps, callerWrites, origin, lastCall>>
logrVars == <<targets, state, queue, written, errors, exits, panics, shutdownErr, sent, last,
             again, dropped, abandoned, failed>>
jsonVars == <<json, ctx, out>>
vars == <<heap, loggers, callerMaps, callerWrites, origin, lastCall,
          targets, state, queue, written, errors, exits, panics, shutdownErr, sent, last,
          again, dropped, abandoned, failed, json, ctx, out>>

\* ------------------------------------------------------ format/json.go
\* The keys context fields carry in this model, in ascending byte order ('_'
\* sorts before every lower-case letter).
CtxKeys == <<"__msg", "_msg", "level", "msg", "user">>

\* logr.FieldType values: one per shape of case in encodeField.
FieldTypes == {"UnknownType", "BoolType", "StringType"}

\* type JSON struct: the options that bear on the keys of the emitted object.
JSONConfigs ==
    [ DisableTimestamp : {FALSE}, DisableLevel : {FALSE}, DisableMsg : {FALSE},
      DisableContext : BOOLEAN, DisableStacktrace : {FALSE},
      KeyTimestamp : {""}, KeyLevel : {"", "_msg"}, KeyMsg : {"", "user"},
      KeyContextFields : {"", "ctx"}, KeyStacktrace : {""},
      once : {FALSE} ]

\* The zero JSON value, and no record: the formatter is not in use.
JSONUnused ==
    /\ json = [DisableTimestamp |-> FALSE, DisableLevel |-> FALSE, DisableMsg |-> FALSE,
            DisableContext |-> FALSE, DisableStacktrace |-> FALSE,
            KeyTimestamp |-> "", KeyLevel |-> "", KeyMsg |-> "",
            KeyContextFields |-> "", KeyStacktrace |-> "", once |-> FALSE]
    /\ ctx = << >>
    /\ out = << >>

\* JSON.applyDefaultKeyNames: an empty key name takes its default.
applyDefaultKeyNames(jj) ==
    [jj EXCEPT !.KeyTimestamp = IF @ = "" THEN "timestamp" ELSE @,
               !.KeyLevel = IF @ = "" THEN "level" ELSE @,
               !.KeyMsg = IF @ = "" THEN "msg" ELSE @,
               !.KeyStacktrace = IF @ = "" THEN "stacktrace" ELSE @]

\* The key names of the timestamp, level, msg and stacktrace members.
ReservedKeys(rec) == {rec.KeyTimestamp, rec.KeyLevel, rec.KeyMsg, rec.KeyStacktrace}

\* JSON.defaultContextSorter: the fields in ascending order of key.
KeysOf(fields) == {fields[i].Key : i \in DOMAIN fields}
FieldOf(fields, key) == CHOOSE f \in {fields[i] : i \in DOMAIN fields} : f.Key = key
Sorted(table, ks) == SelectSeq(table, LAMBDA k : k \in ks)
defaultContextSorter(fields) ==
    LET sorted == Sorted(CtxKeys, KeysOf(fields)) IN
    [i \in DOMAIN sorted |-> FieldOf(fields, sorted[i])]

\* JSONLogRec.prefixCollision: prefix the key with "_" while it is the key
\* name of the timestamp, level, msg or stacktrace member.
RECURSIVE prefixCollision(_, _)
prefixCollision(rec, key) ==
    IF key \in ReservedKeys(rec)
    THEN prefixCollision(rec, "_" \o key)
    ELSE key

\* One member of the emitted object: its key, what it is, and for a context
\* field the field's own key.
Member(key, what, field) == [key |-> key, what |-> what, field |-> field]

\* encodeField: the members it adds for one field. The UnknownType case names
\* the member field.Key, the BoolType case names it key, and the StringType
\* case is empty.
encodeField(key, field) ==
    CASE field.Type = "UnknownType" -> <<Member(field.Key, "context", field.Key)>>
      [] field.Type = "BoolType" -> <<Member(key, "context", field.Key)>>
      [] OTHER -> << >>

\* The loop of MarshalJSONObject over the sorted context fields.
RECURSIVE encodeFields(_, _)
encodeFields(rec, ctxFields) ==
    IF Len(ctxFields) = 0 THEN << >>
    ELSE LET cf == Head(ctxFields)
             key == prefixCollision(rec, cf.Key)
         IN encodeField(key, cf) \o encodeFields(rec, Tail(ctxFields))

\* JSONLogRec.MarshalJSONObject: the members of the object, in order. A record
\* formatted with a stack trace has frames.
MarshalJSONObject(rec, fields, stacktrace) ==
    (IF ~rec.DisableTimestamp THEN <<Member(rec.KeyTimestamp, "timestamp", "")>> ELSE << >>)
    \o (IF ~rec.DisableLevel THEN <<Member(rec.KeyLevel, "level", "")>> ELSE << >>)
    \o (IF ~rec.DisableMsg THEN <<Member(rec.KeyMsg, "msg", "")>> ELSE << >>)
    \o (IF ~rec.DisableContext
        THEN LET ctxFields == defaultContextSorter(fields) IN
             IF rec.KeyContextFields # ""
             THEN <<Member(rec.KeyContextFields, "fields", "")>>
             ELSE encodeFields(rec, ctxFields)
        ELSE << >>)
    \o (IF stacktrace /\ ~rec.DisableStacktrace
        THEN <<Member(rec.KeyStacktrace, "stacktrace", "")>> ELSE << >>)

\* ------------------------------------------------------ Fields (Go maps)
\* The nil map: a reference that is no heap cell.
Nil == 0

\* type Fields map[string]interface{}: a finite function from keys to values.
Fields == UNION {[D -> Vals] : D \in SUBSET Keys}

EmptyFields == [k \in {} |-> 1]

\* What a read of the map behind reference r sees; reading a nil map sees no key.
Deref(h, r) == IF r = Nil THEN EmptyFields ELSE h[r]

\* len(m), which is 0 for a nil map.
len(h, r) == Cardinality(DOMAIN Deref(h, r))

\* The two range loops of WithFields: every pair of old, then every pair of new
\* written over it.
CopyThenSet(old, new) ==
    [k \in (DOMAIN old) \cup (DOMAIN new) |->
        IF k \in DOMAIN new THEN new[k] ELSE old[k]]

\* A slip in the loop order: the parent's pairs are written last and win.
CopyThenSet_oldWins(old, new) ==
    [k \in (DOMAIN old) \cup (DOMAIN new) |->
        IF k \in DOMAIN old THEN old[k] ELSE new[k]]

\* A slip that reuses the parent's map instead of making a new one.
WithFields_inPlace(h, logger, fields) ==
    IF len(h, logger.fields) = 0
    THEN [heap |-> h, l |-> [logr |-> logger.logr, fields |-> fields]]
    ELSE [heap |-> [h EXCEPT ![logger.fields] = CopyThenSet(h[logger.fields], Deref(h, fields))],
          l |-> [logr |-> logger.logr, fields |-> logger.fields]]

\* A slip that lets the parent's value win on a key both maps hold.
WithFields_oldWins(h, logger, fields) ==
    IF len(h, logger.fields) = 0
    THEN [heap |-> h, l |-> [logr |-> logger.logr, fields |-> fields]]
    ELSE [heap |-> Append(h, CopyThenSet_oldWins(Deref(h, logger.fields), Deref(h, fields))),
          l |-> [logr |-> logger.logr, fields |-> Len(h) + 1]]

\* Sugar.WithFields on heap h: the heap after the call and the Sugar it returns.
\* A parent without fields hands the argument map itself to the child.
WithFields(h, logger, fields) ==
    IF len(h, logger.fields) = 0
    THEN [heap |-> h, l |-> [logr |-> logger.logr, fields |-> fields]]
    ELSE [heap |-> Append(h, CopyThenSet(Deref(h, logger.fields), Deref(h, fields))),
          l |-> [logr |-> logger.logr, fields |-> Len(h) + 1]]

\* Sugar.WithField: the literal Fields{key: value} is a fresh map, passed on.
WithField(h, logger, key, value) ==
    WithFields(Append(h, key :> value), logger, Len(h) + 1)

\* The field set logger number i observes.
View(i) == Deref(heap, loggers[i].fields)

\* Logr.NewLogger(): a Sugar bound to the dispatcher, with no fields.
NewLogger == [logr |-> "lgr", fields |-> Nil]

NoCall == [op |-> "none"]

InitFields ==
    /\ heap = << >>
    /\ loggers = <<NewLogger>>
    /\ callerMaps = {}
    /\ callerWrites = 0
    /\ origin = <<[parent |-> 0, op |-> "NewLogger"]>>
    /\ lastCall = NoCall
    /\ targets = << >>
    /\ state = "Running"
    /\ queue = << >>
    /\ written = << >>
    /\ errors = << >>
    /\ exits = << >>
    /\ panics = 0
    /\ shutdownErr = "none"
    /\ sent = << >>
    /\ again = << >>
    /\ dropped = << >>
    /\ abandoned = << >>
    /\ failed = << >>
    /\ JSONUnused
    /\ last = NoCall

\* Application code builds a map (Fields{...}) and keeps the reference.
CallerMakeFields(m) ==
    /\ Len(heap) < MaxHeap
    /\ Cardinality(callerMaps) < MaxCallerMaps
    /\ heap' = Append(heap, m)
    /\ callerMaps' = callerMaps \cup {Len(heap) + 1}
    /\ lastCall' = NoCall
    /\ UNCHANGED <<loggers, callerWrites, origin>>
    /\ UNCHANGED <<logrVars, jsonVars>>

\* Application code writes m[k] = v into a map it holds.
CallerSetField(r, k, v) ==
    /\ r \in callerMaps
    /\ callerWrites < MaxCallerWrites
    /\ callerWrites' = callerWrites + 1
    /\ heap' = [heap EXCEPT ![r] = CopyThenSet(heap[r], k :> v)]
    /\ lastCall' = NoCall
    /\ UNCHANGED <<loggers, callerMaps, origin>>
    /\ UNCHANGED <<logrVars, jsonVars>>

\* loggers[i].WithFields(m), m a map the caller holds, or nil.
CallWithFields(i, r) ==
    /\ Len(loggers) < MaxLoggers
    /\ r \in callerMaps \cup {Nil}
    /\ LET res == WithFields(heap, loggers[i], r) IN
        /\ Len(res.heap) <= MaxHeap
        /\ heap' = res.heap
        /\ loggers' = Append(loggers, res.l)
        /\ origin' = Append(origin, [parent |-> i, op |-> "WithFields"])
        /\ lastCall' = [op |-> "WithFields", parent |-> i,
                        F |-> View(i), G |-> Deref(heap, r)]
    /\ UNCHANGED <<callerMaps, callerWrites>>
    /\ UNCHANGED <<logrVars, jsonVars>>

\* loggers[i].WithField(k, v).
CallWithField(i, k, v) ==
    /\ Len(loggers) < MaxLoggers
    /\ LET res == WithField(heap, loggers[i], k, v) IN
        /\ Len(res.heap) <= MaxHeap
        /\ heap' = res.heap
        /\ loggers' = Append(loggers, res.l)
        /\ origin' = Append(origin, [parent |-> i, op |-> "WithField"])
        /\ lastCall' = [op |-> "WithField", parent |-> i,
                        F |-> View(i), G |-> k :> v]
    /\ UNCHANGED <<callerMaps, callerWrites>>
    /\ UNCHANGED <<logrVars, jsonVars>>

NextFields ==
    \/ \E m \in Fields : CallerMakeFields(m)
    \/ \E r \in 1..Len(heap), k \in Keys, v \in Vals : CallerSetField(r, k, v)
    \/ \E i \in 1..Len(loggers), r \in 0..Len(heap) : CallWithFields(i, r)
    \/ \E i \in 1..Len(loggers), k \in Keys, v \in Vals : CallWithField(i, k, v)

SpecFields == InitFields /\ [][NextFields]_vars

\* ------------------------------------------------------------- levels
\* The largest level id a filter evaluates without error.
MaxLevelID == 255

\* The built-in severities, in increasing severity; the id is the ordinal.
TraceLevel == [ID |-> 0, Name |-> "trace", Stacktrace |-> FALSE]
DebugLevel == [ID |-> 1, Name |-> "debug", Stacktrace |-> FALSE]
InfoLevel == [ID |-> 2, Name |-> "info", Stacktrace |-> FALSE]
WarnLevel == [ID |-> 3, Name |-> "warn", Stacktrace |-> FALSE]
ErrorLevel == [ID |-> 4, Name |-> "error", Stacktrace |-> FALSE]
FatalLevel == [ID |-> 5, Name |-> "fatal", Stacktrace |-> FALSE]
PanicLevel == [ID |-> 6, Name |-> "panic", Stacktrace |-> FALSE]

\* The application-defined levels of the tests.
LoginLevel == [ID |-> 100, Name |-> "login ", Stacktrace |-> FALSE]
LogoutLevel == [ID |-> 101, Name |-> "logout", Stacktrace |-> FALSE]
BadLevel == [ID |-> MaxLevelID + 1, Name |-> "invalid", Stacktrace |-> FALSE]

BuiltinLevels ==
    {TraceLevel, DebugLevel, InfoLevel, WarnLevel, ErrorLevel, FatalLevel, PanicLevel}

Levels == BuiltinLevels \cup {LoginLevel, LogoutLevel, BadLevel}

\* ------------------------------------------------------------ filters
\* The threshold filter: an enabled-at level and a stacktrace-at level.
StdFilter(lvl, stacktrace) == [kind |-> "std", Lvl |-> lvl, Stacktrace |-> stacktrace]

\* The explicit filter: the levels registered with Add, by id.
CustomFilter(levels) == [kind |-> "custom", levels |-> levels]

\* Filter.Evaluate. A threshold filter compares severity ordinals, which only the
\* built-in levels have; an explicit filter matches ids exactly, and evaluating a
\* registered level whose id exceeds MaxLevelID is an error that enables nothing.
\* A threshold filter asks for a stack trace from its stacktrace threshold on,
\* whether or not it enables the level.
Evaluate(filter, level) ==
    IF filter.kind = "std"
    THEN LET on == level \in BuiltinLevels /\ level.ID >= filter.Lvl.ID IN
         [enabled |-> on,
          stacktrace |-> level \in BuiltinLevels /\ level.ID >= filter.Stacktrace.ID,
          err |-> FALSE]
    ELSE LET reg == {l \in filter.levels : l.ID = level.ID} IN
         IF reg = {} THEN [enabled |-> FALSE, stacktrace |-> FALSE, err |-> FALSE]
         ELSE IF level.ID > MaxLevelID
              THEN [enabled |-> FALSE, stacktrace |-> FALSE, err |-> TRUE]
              ELSE [enabled |-> TRUE,
                    stacktrace |-> \E l \in reg : l.Stacktrace,
                    err |-> FALSE]

\* ---------------------------------------------------------- dispatcher
\* A slip that takes the OR of "needs stacktrace" over every target, enabled
\* for the level or not.
IsLevelEnabled_anyTarget(lvl) ==
    [Enabled |-> \E t \in DOMAIN targets : Evaluate(targets[t].filter, lvl).enabled,
     Stacktrace |-> \E t \in DOMAIN targets : Evaluate(targets[t].filter, lvl).stacktrace]

\* Logr.IsLevelEnabled: the OR over the targets of "enabled", and the OR of
\* "needs stacktrace" over the targets that enable the level.
IsLevelEnabled(lvl) ==
    [Enabled |-> \E t \in DOMAIN targets : Evaluate(targets[t].filter, lvl).enabled,
     Stacktrace |-> \E t \in DOMAIN targets :
                        /\ Evaluate(targets[t].filter, lvl).enabled
                        /\ Evaluate(targets[t].filter, lvl).stacktrace]

\* Whether evaluating lvl fails in some target's filter; IsLevelEnabled reports
\* this through the error hook, once for the call.
InvalidLevel(lvl) == \E t \in DOMAIN targets : Evaluate(targets[t].filter, lvl).err

\* Target.Offer on a queue q of capacity cap.
Offer(filter, q, cap, rec) ==
    LET e == Evaluate(filter, rec.level) IN
    IF e.err THEN "Error"
    ELSE IF ~e.enabled THEN "Rejected"
    ELSE IF Len(q) < cap THEN "Accepted"
    ELSE "Dropped"

\* The reports Enqueue forwards to the error hook for targets t..n, in order.
RECURSIVE OfferErrors(_, _, _)
OfferErrors(t, q, rec) ==
    IF t > Len(targets) THEN << >>
    ELSE LET o == Offer(targets[t].filter, q[t], targets[t].cap, rec) IN
         (IF o = "Dropped" THEN <<"QueueFull">>
          ELSE IF o = "Error" THEN <<"InvalidLevelID">>
          ELSE << >>) \o OfferErrors(t + 1, q, rec)

\* Logr.enqueue on dispatcher state d: accepted only while Running; otherwise
\* each target is offered the record and every drop or error is reported.
Enqueue(d, rec) ==
    IF state # "Running"
    THEN [d EXCEPT !.errors = Append(@, "NotRunning")]
    ELSE [d EXCEPT
            !.queue = [t \in DOMAIN targets |->
                IF Offer(targets[t].filter, d.queue[t], targets[t].cap, rec) = "Accepted"
                THEN Append(d.queue[t], rec) ELSE d.queue[t]],
            !.dropped = [t \in DOMAIN targets |->
                IF Offer(targets[t].filter, d.queue[t], targets[t].cap, rec) = "Dropped"
                THEN Append(d.dropped[t], rec) ELSE d.dropped[t]],
            !.errors = @ \o OfferErrors(1, d.queue, rec)]

\* NewLogRec: the record of one logging event; nothing is rendered here.
NewLogRec(lvl, logger, format, args, stacktrace) ==
    [level |-> lvl, logger |-> logger, format |-> format, args |-> args,
     stacktrace |-> stacktrace, newline |-> FALSE]

\* -------------------------------------------------------------- Sugar
\* What a logging call does, in order, as a sequence of events:
\*   IsLevelEnabled(lvl), enqueue(rec), exit(code), panic(value).

\* A slip that enqueues without looking at the status.
Log_always(lvl, logger, args) ==
    LET status == IsLevelEnabled(lvl) IN
    <<[e |-> "IsLevelEnabled", arg |-> lvl],
      [e |-> "enqueue", arg |-> NewLogRec(lvl, logger, "", args, status.Stacktrace)]>>

\* A slip that negates the test of the status.
Log_inverted(lvl, logger, args) ==
    LET status == IsLevelEnabled(lvl) IN
    <<[e |-> "IsLevelEnabled", arg |-> lvl]>> \o
    (IF ~status.Enabled
     THEN <<[e |-> "enqueue", arg |-> NewLogRec(lvl, logger, "", args, status.Stacktrace)]>>
     ELSE << >>)

\* Sugar.Log: arguments in the manner of fmt.Print.
Log(lvl, logger, args) ==
    LET status == IsLevelEnabled(lvl) IN
    <<[e |-> "IsLevelEnabled", arg |-> lvl]>> \o
    (IF status.Enabled
     THEN <<[e |-> "enqueue", arg |-> NewLogRec(lvl, logger, "", args, status.Stacktrace)]>>
     ELSE << >>)

\* Sugar.Logf: arguments in the manner of fmt.Printf.
Logf(lvl, logger, format, args) ==
    LET status == IsLevelEnabled(lvl) IN
    <<[e |-> "IsLevelEnabled", arg |-> lvl]>> \o
    (IF status.Enabled
     THEN <<[e |-> "enqueue", arg |-> NewLogRec(lvl, logger, format, args, status.Stacktrace)]>>
     ELSE << >>)

\* Sugar.Logln: arguments in the manner of fmt.Println; the record is marked newline.
Logln(lvl, logger, args) ==
    LET status == IsLevelEnabled(lvl) IN
    <<[e |-> "IsLevelEnabled", arg |-> lvl]>> \o
    (IF status.Enabled
     THEN <<[e |-> "enqueue",
             arg |-> [NewLogRec(lvl, logger, "", args, status.Stacktrace)
                         EXCEPT !.newline = TRUE]]>>
     ELSE << >>)

\* Sugar.Trace: Log(TraceLevel, ...)
Trace(logger, args) == Log(TraceLevel, logger, args)

\* Sugar.Debug: Log(DebugLevel, ...)
Debug(logger, args) == Log(DebugLevel, logger, args)

\* Sugar.Info: Log(InfoLevel, ...)
Info(logger, args) == Log(InfoLevel, logger, args)

\* Sugar.Warn: Log(WarnLevel, ...)
Warn(logger, args) == Log(WarnLevel, logger, args)

\* Sugar.Error: Log(ErrorLevel, ...)
Error(logger, args) == Log(ErrorLevel, logger, args)

\* Sugar.Print: compatibility with the std lib logger. (The TLC module already
\* defines an operator of that name.)
Sugar_Print(logger, args) == Info(logger, args)

\* Sugar.Tracef: Logf(TraceLevel, ...)
Tracef(logger, format, args) == Logf(TraceLevel, logger, format, args)

\* Sugar.Debugf: Logf(DebugLevel, ...)
Debugf(logger, format, args) == Logf(DebugLevel, logger, format, args)

\* Sugar.Infof: Logf(InfoLevel, ...)
Infof(logger, format, args) == Logf(InfoLevel, logger, format, args)

\* Sugar.Warnf: Logf(WarnLevel, ...)
Warnf(logger, format, args) == Logf(WarnLevel, logger, format, args)

\* Sugar.Errorf: Logf(ErrorLevel, ...)
Errorf(logger, format, args) == Logf(ErrorLevel, logger, format, args)

\* Sugar.Printf: compatibility with the std lib logger.
Printf(logger, format, args) == Infof(logger, format, args)

\* Sugar.Traceln: Logln(TraceLevel, ...)
Traceln(logger, args) == Logln(TraceLevel, logger, args)

\* Sugar.Debugln: Logln(DebugLevel, ...)
Debugln(logger, args) == Logln(DebugLevel, logger, args)

\* Sugar.Infoln: Logln(InfoLevel, ...)
Infoln(logger, args) == Logln(InfoLevel, logger, args)

\* Sugar.Warnln: Logln(WarnLevel, ...)
Warnln(logger, args) == Logln(WarnLevel, logger, args)

\* Sugar.Errorln: Logln(ErrorLevel, ...)
Errorln(logger, args) == Logln(ErrorLevel, logger, args)

\* Sugar.Println: compatibility with the std lib logger.
Println(logger, args) == Infoln(logger, args)

\* A slip that calls the exit hook before logging.
Fatal_exitFirst(logger, args) ==
    <<[e |-> "exit", arg |-> 1]>> \o Log(FatalLevel, logger, args)

\* Sugar.Fatal: Log(FatalLevel, ...) followed by exit(1).
Fatal(logger, args) ==
    Log(FatalLevel, logger, args) \o <<[e |-> "exit", arg |-> 1]>>

\* Sugar.Fatalf: Logf(FatalLevel, ...) followed by exit(1).
Fatalf(logger, format, args) ==
    Logf(FatalLevel, logger, format, args) \o <<[e |-> "exit", arg |-> 1]>>

\* Sugar.Fatalln: Logln(FatalLevel, ...) followed by exit(1).
Fatalln(logger, args) ==
    Logln(FatalLevel, logger, args) \o <<[e |-> "exit", arg |-> 1]>>

\* Sugar.Panic: Log(PanicLevel, ...) followed by panic(fmt.Sprint(args...)).
Panic(logger, args) ==
    Log(PanicLevel, logger, args) \o <<[e |-> "panic", arg |-> args]>>

\* Sugar.Panicf: Logf(PanicLevel, ...), and nothing after it.
Panicf(logger, format, args) == Logf(PanicLevel, logger, format, args)

\* Sugar.Panicln: Logln(PanicLevel, ...), and nothing after it.
Panicln(logger, args) == Logln(PanicLevel, logger, args)

\* The level-taking methods and the methods that fix their level.
LevelMethods == {"Log", "Logf", "Logln"}

FixedLevel ==
    [m \in {"Trace", "Tracef", "Traceln"} |-> TraceLevel] @@
    [m \in {"Debug", "Debugf", "Debugln"} |-> DebugLevel] @@
    [m \in {"Info", "Infof", "Infoln", "Print", "Printf", "Println"} |-> InfoLevel] @@
    [m \in {"Warn", "Warnf", "Warnln"} |-> WarnLevel] @@
    [m \in {"Error", "Errorf", "Errorln"} |-> ErrorLevel] @@
    [m \in {"Fatal", "Fatalf", "Fatalln"} |-> FatalLevel] @@
    [m \in {"Panic", "Panicf", "Panicln"} |-> PanicLevel]

Methods == LevelMethods \cup DOMAIN FixedLevel

\* The level a call of method m logs at, given the level argument where it takes one.
LevelOf(m, lvl) == IF m \in LevelMethods THEN lvl ELSE FixedLevel[m]

\* The call logger.m(...) with level argument lvl (where m takes one), format "%v".
Invoke(m, lvl, logger, args) ==
    CASE m = "Log" -> Log(lvl, logger, args)
      [] m = "Logf" -> Logf(lvl, logger, "%v", args)
      [] m = "Logln" -> Logln(lvl, logger, args)
      [] m = "Trace" -> Trace(logger, args)
      [] m = "Debug" -> Debug(logger, args)
      [] m = "Info" -> Info(logger, args)
      [] m = "Print" -> Sugar_Print(logger, args)
      [] m = "Warn" -> Warn(logger, args)
      [] m = "Error" -> Error(logger, args)
      [] m = "Fatal" -> Fatal(logger, args)
      [] m = "Panic" -> Panic(logger, args)
      [] m = "Tracef" -> Tracef(logger, "%v", args)
      [] m = "Debugf" -> Debugf(logger, "%v", args)
      [] m = "Infof" -> Infof(logger, "%v", args)
      [] m = "Printf" -> Printf(logger, "%v", args)
      [] m = "Warnf" -> Warnf(logger, "%v", args)
      [] m = "Errorf" -> Errorf(logger, "%v", args)
      [] m = "Fatalf" -> Fatalf(logger, "%v", args)
      [] m = "Panicf" -> Panicf(logger, "%v", args)
      [] m = "Traceln" -> Traceln(logger, args)
      [] m = "Debugln" -> Debugln(logger, args)
      [] m = "Infoln" -> Infoln(logger, args)
      [] m = "Println" -> Println(logger, args)
      [] m = "Warnln" -> Warnln(logger, args)
      [] m = "Errorln" -> Errorln(logger, args)
      [] m = "Fatalln" -> Fatalln(logger, args)
      [] m = "Panicln" -> Panicln(logger, args)

\* One event applied to the dispatcher state d (queues, hook invocations, panics).
Do(d, ev) ==
    CASE ev.e = "IsLevelEnabled" ->
            IF InvalidLevel(ev.arg)
            THEN [d EXCEPT !.errors = Append(@, "InvalidLevelID")] ELSE d
      [] ev.e = "enqueue" -> Enqueue(d, ev.arg)
      [] ev.e = "exit" -> [d EXCEPT !.exits = Append(@, ev.arg)]
      [] ev.e = "panic" -> [d EXCEPT !.panics = @ + 1]

RECURSIVE Run(_, _)
Run(d, evs) == IF Len(evs) = 0 THEN d ELSE Run(Do(d, Head(evs)), Tail(evs))

\* --------------------------------------------------- targets and actions
\* The concurrent producers, each with its own logger.
Producers == {1, 2}

\* The filters the tests configure, two-target dispatchers (one whose targets
\* share no level, one whose second target asks for a stack trace from Warn on
\* but is enabled from Error on), and a dispatcher with no target.
TargetConfigs ==
    { << >>,
      <<[filter |-> StdFilter(WarnLevel, PanicLevel), cap |-> QueueCap],
        [filter |-> StdFilter(ErrorLevel, WarnLevel), cap |-> QueueCap]>>,
      <<[filter |-> StdFilter(WarnLevel, ErrorLevel), cap |-> QueueCap]>>,
      <<[filter |-> StdFilter(WarnLevel, PanicLevel), cap |-> QueueCap]>>,
      <<[filter |-> StdFilter(InfoLevel, ErrorLevel), cap |-> QueueCap]>>,
      <<[filter |-> CustomFilter({LoginLevel, LogoutLevel}), cap |-> QueueCap]>>,
      <<[filter |-> CustomFilter({BadLevel}), cap |-> QueueCap]>>,
      <<[filter |-> StdFilter(WarnLevel, ErrorLevel), cap |-> QueueCap],
        [filter |-> CustomFilter({LoginLevel, LogoutLevel}), cap |-> QueueCap]>> }

\* How many logging calls have been made.
TotalCalls == Len(sent[1]) + Len(sent[2])

\* The dispatcher with its targets added, and no logging call made yet.
Init ==
    /\ targets \in TargetConfigs
    /\ state = "Running"
    /\ queue = [t \in DOMAIN targets |-> << >>]
    /\ written = [t \in DOMAIN targets |-> << >>]
    /\ errors = << >>
    /\ exits = << >>
    /\ panics = 0
    /\ shutdownErr = "none"
    /\ sent = [p \in Producers |-> << >>]
    /\ last = NoCall
    /\ again = << >>
    /\ dropped = [t \in DOMAIN targets |-> << >>]
    /\ abandoned = [t \in DOMAIN targets |-> << >>]
    /\ failed = [t \in DOMAIN targets |-> << >>]
    /\ JSONUnused
    /\ heap = << >>
    /\ loggers = <<NewLogger>>
    /\ callerMaps = {}
    /\ callerWrites = 0
    /\ origin = <<[parent |-> 0, op |-> "NewLogger"]>>
    /\ lastCall = NoCall

\* Producer p calls method m of its logger; the call's message is its number.
Call(p, m, lvl, max) ==
    /\ TotalCalls < max
    /\ LET n == Len(sent[p]) + 1
           evs == Invoke(m, lvl, p, n)
           d == Run([queue |-> queue, errors |-> errors, exits |-> exits,
                     panics |-> panics, dropped |-> dropped], evs)
       IN
        /\ queue' = d.queue
        /\ errors' = d.errors
        /\ exits' = d.exits
        /\ panics' = d.panics
        /\ dropped' = d.dropped
        /\ sent' = [sent EXCEPT ![p] =
                        Append(@, [method |-> m, level |-> LevelOf(m, lvl), state |-> state])]
        /\ last' = [op |-> "call", p |-> p, n |-> n, method |-> m,
                    level |-> LevelOf(m, lvl), evs |-> evs]
    /\ UNCHANGED <<targets, state, written, shutdownErr, again, abandoned, failed>>
    /\ UNCHANGED <<fieldVars, jsonVars>>

\* A slip that hands the writer's output the newest record first.
Worker_newestFirst(t) ==
    /\ state \in {"Running", "ShuttingDown"}
    /\ Len(queue[t]) > 0
    /\ written' = [written EXCEPT ![t] = <<Head(queue[t])>> \o @]
    /\ queue' = [queue EXCEPT ![t] = Tail(@)]
    /\ last' = NoCall
    /\ UNCHANGED <<targets, state, errors, exits, panics, shutdownErr, sent>>
    /\ UNCHANGED <<again, dropped, abandoned, failed>>
    /\ UNCHANGED <<fieldVars, jsonVars>>

\* Target t's worker takes the head of its queue, formats it and writes it.
Worker(t) ==
    /\ state \in {"Running", "ShuttingDown"}
    /\ Len(queue[t]) > 0
    /\ written' = [written EXCEPT ![t] = Append(@, Head(queue[t]))]
    /\ queue' = [queue EXCEPT ![t] = Tail(@)]
    /\ last' = NoCall
    /\ UNCHANGED <<targets, state, errors, exits, panics, shutdownErr, sent>>
    /\ UNCHANGED <<again, dropped, abandoned, failed>>
    /\ UNCHANGED <<fieldVars, jsonVars>>

\* Shutdown is called: the targets stop accepting and drain.
ShutdownBegin ==
    /\ state = "Running"
    /\ state' = "ShuttingDown"
    /\ last' = NoCall
    /\ UNCHANGED <<targets, queue, written, errors, exits, panics, shutdownErr, sent>>
    /\ UNCHANGED <<again, dropped, abandoned, failed>>
    /\ UNCHANGED <<fieldVars, jsonVars>>

\* Every target has drained: Shutdown returns no error.
ShutdownDrained ==
    /\ state = "ShuttingDown"
    /\ \A t \in DOMAIN targets : Len(queue[t]) = 0
    /\ state' = "Stopped"
    /\ shutdownErr' = "nil"
    /\ last' = NoCall
    /\ UNCHANGED <<targets, queue, written, errors, exits, panics, sent>>
    /\ UNCHANGED <<again, dropped, abandoned, failed>>
    /\ UNCHANGED <<fieldVars, jsonVars>>

\* A slip that lets the deadline pass in silence: the queued records are
\* discarded and Shutdown returns nil.
ShutdownTimeout_silent ==
    /\ state = "ShuttingDown"
    /\ \E t \in DOMAIN targets : Len(queue[t]) > 0
    /\ state' = "Stopped"
    /\ shutdownErr' = "nil"
    /\ abandoned' = queue
    /\ queue' = [t \in DOMAIN targets |-> << >>]
    /\ last' = NoCall
    /\ UNCHANGED <<targets, written, errors, exits, panics, sent, again, dropped, failed>>
    /\ UNCHANGED <<fieldVars, jsonVars>>

\* The deadline passes with records still queued: they are abandoned, the
\* abandonment is reported with the number of records each target abandoned, and
\* Shutdown returns the timeout.
ShutdownTimeout ==
    /\ state = "ShuttingDown"
    /\ \E t \in DOMAIN targets : Len(queue[t]) > 0
    /\ state' = "Stopped"
    /\ shutdownErr' = "timeout"
    /\ errors' = Append(errors, "Timeout")
    /\ abandoned' = queue
    /\ queue' = [t \in DOMAIN targets |-> << >>]
    /\ last' = NoCall
    /\ UNCHANGED <<targets, written, exits, panics, sent, again, dropped, failed>>
    /\ UNCHANGED <<fieldVars, jsonVars>>

\* A slip that treats a repeated call as an error of its own: it reports the
\* call and returns that error, not the first call's result.
ShutdownAgain_reports ==
    /\ state = "Stopped"
    /\ Len(again) < MaxRepeats
    /\ again' = Append(again, "AlreadyShutdown")
    /\ errors' = Append(errors, "AlreadyShutdown")
    /\ last' = NoCall
    /\ UNCHANGED <<targets, state, queue, written, exits, panics, shutdownErr, sent>>
    /\ UNCHANGED <<dropped, abandoned, failed>>
    /\ UNCHANGED <<fieldVars, jsonVars>>

\* Shutdown is called again, after the first call or while it runs: the call
\* does nothing further and returns what the first call returned.
ShutdownAgain ==
    /\ state = "Stopped"
    /\ Len(again) < MaxRepeats
    /\ again' = Append(again, shutdownErr)
    /\ last' = NoCall
    /\ UNCHANGED <<targets, state, queue, written, errors, exits, panics, shutdownErr, sent>>
    /\ UNCHANGED <<dropped, abandoned, failed>>
    /\ UNCHANGED <<fieldVars, jsonVars>>

\* A slip that does not catch the failure at the worker boundary: the panic
\* goes up unreported.
WorkerFails_uncaught(t) ==
    /\ state \in {"Running", "ShuttingDown"}
    /\ Len(queue[t]) > 0
    /\ failed' = [failed EXCEPT ![t] = Append(@, Head(queue[t]))]
    /\ queue' = [queue EXCEPT ![t] = Tail(@)]
    /\ panics' = panics + 1
    /\ last' = NoCall
    /\ UNCHANGED <<targets, state, written, exits, errors, shutdownErr, sent>>
    /\ UNCHANGED <<again, dropped, abandoned>>
    /\ UNCHANGED <<fieldVars, jsonVars>>

\* Target t's worker takes the head of its queue and the formatter or the
\* writer fails on it (an error or a panic): the failure is caught at the worker
\* boundary and reported, and the worker goes on.
WorkerFails(t) ==
    /\ state \in {"Running", "ShuttingDown"}
    /\ Len(queue[t]) > 0
    /\ failed' = [failed EXCEPT ![t] = Append(@, Head(queue[t]))]
    /\ queue' = [queue EXCEPT ![t] = Tail(@)]
    /\ errors' = Append(errors, "DeliveryError")
    /\ last' = NoCall
    /\ UNCHANGED <<targets, state, written, exits, panics, shutdownErr, sent>>
    /\ UNCHANGED <<again, dropped, abandoned>>
    /\ UNCHANGED <<fieldVars, jsonVars>>

\* The methods the producers of Spec call.
ProducerMethods == {"Log"}

\* The levels the producers of Spec log at: those the tests log at.
ProducerLevels ==
    {TraceLevel, DebugLevel, WarnLevel, ErrorLevel, LoginLevel, LogoutLevel, BadLevel}

Next ==
    \/ \E p \in Producers, m \in ProducerMethods, lvl \in ProducerLevels :
            Call(p, m, lvl, MaxCalls)
    \/ \E t \in DOMAIN targets : Worker(t)
    \/ ShutdownBegin
    \/ ShutdownDrained
    \/ ShutdownTimeout
    \/ ShutdownAgain

\* The dispatcher with a formatter and a writer that do not fail.
Spec == Init /\ [][Next]_vars

\* Shutdown runs on: its drain ends, by the last queue emptying or by the
\* deadline passing. No worker is required to make progress.
SpecLive == Spec /\ WF_vars(ShutdownDrained \/ ShutdownTimeout)

\* The dispatcher with a formatter or a writer that may fail on any record.
NextFail ==
    \/ Next
    \/ \E t \in DOMAIN targets : WorkerFails(t)

SpecFail == Init /\ [][NextFail]_vars

\* One caller making any logging call of Sugar; a method that fixes its level
\* is called once, not once per level.
NextSugar ==
    \E m \in Methods, lvl \in Levels :
        /\ m \notin LevelMethods => lvl = FixedLevel[m]
        /\ Call(1, m, lvl, MaxSugarCalls)

SpecSugar == Init /\ [][NextSugar]_vars

\* ------------------------------------------- the JSON formatter in use
\* A JSON formatter as the application configured it, and a record with no
\* context field yet.
InitJSON ==
    /\ json \in JSONConfigs
    /\ ctx = << >>
    /\ out = << >>
    /\ heap = << >>
    /\ loggers = <<NewLogger>>
    /\ callerMaps = {}
    /\ callerWrites = 0
    /\ origin = <<[parent |-> 0, op |-> "NewLogger"]>>
    /\ lastCall = NoCall
    /\ targets = << >>
    /\ state = "Running"
    /\ queue = << >>
    /\ written = << >>
    /\ errors = << >>
    /\ exits = << >>
    /\ panics = 0
    /\ shutdownErr = "none"
    /\ sent = << >>
    /\ last = NoCall
    /\ again = << >>
    /\ dropped = << >>
    /\ abandoned = << >>
    /\ failed = << >>

\* The record to format gains a context field under a key it does not have yet.
WithContextField(key, type) ==
    /\ Len(ctx) < MaxCtxFields
    /\ key \notin KeysOf(ctx)
    /\ ctx' = Append(ctx, [Key |-> key, Type |-> type])
    /\ out' = << >>
    /\ UNCHANGED <<json, fieldVars, logrVars>>

\* JSON.Format: the default key names are applied on the first call, then the
\* record is encoded.
Format(stacktrace) ==
    /\ json' = IF json.once THEN json ELSE [applyDefaultKeyNames(json) EXCEPT !.once = TRUE]
    /\ out' = MarshalJSONObject(json', ctx, stacktrace)
    /\ UNCHANGED <<ctx, fieldVars, logrVars>>

NextJSON ==
    \/ \E i \in DOMAIN CtxKeys, type \in FieldTypes : WithContextField(CtxKeys[i], type)
    \/ \E stacktrace \in BOOLEAN : Format(stacktrace)

SpecJSON == InitJSON /\ [][NextJSON]_vars

\* ------------------------------------------------- claims on field sets
\* C1: a WithField or WithFields call leaves the field set every existing logger
\* observes (the parent's and each sibling's) as it was before the call, and the
\* child returned by WithField(k, v) observes v at k.
C1_ParentUnchanged ==
    [][Len(loggers') > Len(loggers) =>
        /\ \A i \in 1..Len(loggers) :
              Deref(heap', loggers'[i].fields) = Deref(heap, loggers[i].fields)
        /\ lastCall'.op = "WithField" =>
              \A k \in DOMAIN lastCall'.G :
                  Deref(heap', loggers'[Len(loggers')].fields)[k] = lastCall'.G[k]
    ]_vars

\* Two children derived from the field-less root by WithField("a", 1) and
\* WithField("a", 2): each sees its own value and the root still sees no field.
C1_Witness ==
    /\ Len(loggers) = 3
    /\ origin[2] = [parent |-> 1, op |-> "WithField"]
    /\ origin[3] = [parent |-> 1, op |-> "WithField"]
    /\ View(1) = EmptyFields
    /\ View(2) = "a" :> 1
    /\ View(3) = "a" :> 2

\* C2: the logger WithFields(G) returns on a parent with fields F has exactly the
\* keys of F and G together, with G's value on every key of G and F's elsewhere.
C2_Overlay ==
    lastCall.op = "WithFields" =>
        LET c == View(Len(loggers)) IN
        /\ DOMAIN c = (DOMAIN lastCall.F) \cup (DOMAIN lastCall.G)
        /\ \A k \in DOMAIN c :
              c[k] = IF k \in DOMAIN lastCall.G THEN lastCall.G[k] ELSE lastCall.F[k]

\* WithFields has just returned on a parent that holds a key of G with another
\* value, and G brings a key the parent lacks.
C2_Witness ==
    /\ lastCall.op = "WithFields"
    /\ \E k \in (DOMAIN lastCall.F) \cap (DOMAIN lastCall.G) :
          /\ lastCall.F[k] # lastCall.G[k]
          /\ View(Len(loggers))[k] = lastCall.G[k]
    /\ (DOMAIN lastCall.G) \ (DOMAIN lastCall.F) # {}

\* C3: the field set a logger observes never changes once the logger exists,
\* whatever step follows.
C3_FieldsImmutable ==
    [][\A i \in 1..Len(loggers) :
          Deref(heap', loggers'[i].fields) = Deref(heap, loggers[i].fields)]_vars

\* ----------------------------------------------- claims on logging calls
\* The positions of the events of kind k in a call's event sequence.
EventsOf(evs, k) == {i \in DOMAIN evs : evs[i].e = k}

\* C4: a call of Log, Logf or Logln asks IsLevelEnabled(level) first; when the
\* answer is enabled it then hands one record of that level to enqueue and does
\* nothing else, and when it is not it hands nothing to enqueue. No call of any
\* method enqueues before the check or more than once.
C4_CheckThenEnqueue ==
    last.op = "call" =>
        /\ Len(last.evs) >= 1
        /\ EventsOf(last.evs, "IsLevelEnabled") = {1}
        /\ last.evs[1].arg = last.level
        /\ EventsOf(last.evs, "enqueue") =
              IF \E t \in DOMAIN targets : Evaluate(targets[t].filter, last.level).enabled
              THEN {2} ELSE {}
        /\ \A i \in EventsOf(last.evs, "enqueue") : last.evs[i].arg.level = last.level
        /\ last.method \in LevelMethods =>
              DOMAIN last.evs = EventsOf(last.evs, "IsLevelEnabled")
                                    \cup EventsOf(last.evs, "enqueue")

\* Logln at an enabled level put its one record on the target's queue, and an
\* earlier call of Log at a level no target enables left nothing behind.
C4_Witness ==
    /\ last.op = "call"
    /\ last.method = "Logln"
    /\ Len(last.evs) = 2
    /\ Len(targets) = 1
    /\ Len(queue[1]) = 1
    /\ queue[1][1] = last.evs[2].arg
    /\ queue[1][1].newline
    /\ Len(sent[1]) = 2
    /\ sent[1][1].method = "Log"
    /\ ~IsLevelEnabled(sent[1][1].level).Enabled

FatalMethods == {"Fatal", "Fatalf", "Fatalln"}

\* The calls made so far of one of the methods M, each named by producer and number.
CallsOf(M) ==
    UNION {{<<p, n>> : n \in {k \in DOMAIN sent[p] : sent[p][k].method \in M}} :
              p \in Producers}

PanicMethods == {"Panic", "Panicf", "Panicln"}

\* C5: a call of Fatal, Fatalf or Fatalln invokes the exit hook once, with status
\* 1, as its last step, after the Fatal-level record (if the level is enabled) was
\* enqueued; a call of any other method does not invoke it; so the hook has been
\* invoked once per Fatal-family call, always with 1.
C5_ExitOnceAfterEnqueue ==
    /\ last.op = "call" =>
          IF last.method \in FatalMethods
          THEN /\ EventsOf(last.evs, "exit") = {Len(last.evs)}
               /\ last.evs[Len(last.evs)].arg = 1
               /\ IsLevelEnabled(FatalLevel).Enabled =>
                     /\ last.evs[Len(last.evs) - 1].e = "enqueue"
                     /\ last.evs[Len(last.evs) - 1].arg.level = FatalLevel
          ELSE EventsOf(last.evs, "exit") = {}
    /\ Len(exits) = Cardinality(CallsOf(FatalMethods))
    /\ \A i \in DOMAIN exits : exits[i] = 1

\* Fatalf has queued its Fatal record and then called exit(1); the call before it,
\* of another method, did not call exit.
C5_Witness ==
    /\ last.op = "call"
    /\ last.method = "Fatalf"
    /\ Len(last.evs) = 3
    /\ Len(sent[1]) = 2
    /\ sent[1][1].method \notin FatalMethods
    /\ exits = <<1>>
    /\ \E t \in DOMAIN targets : \E i \in DOMAIN queue[t] : queue[t][i].level = FatalLevel

\* C6: a call of Panic, Panicf or Panicln logs at Panic level and then ends by
\* raising a panic to its caller.
C6_PanicRaises ==
    (last.op = "call" /\ last.method \in PanicMethods) =>
        /\ last.evs[1].e = "IsLevelEnabled"
        /\ last.evs[1].arg = PanicLevel
        /\ last.evs[Len(last.evs)].e = "panic"

\* The severity ordinal of a built-in level.
SeverityOrder ==
    <<TraceLevel, DebugLevel, InfoLevel, WarnLevel, ErrorLevel, FatalLevel, PanicLevel>>

Ord(l) == CHOOSE i \in DOMAIN SeverityOrder : SeverityOrder[i] = l

CallsAt(L) ==
    UNION {{<<p, n>> : n \in {k \in DOMAIN sent[p] : sent[p][k].level \in L}} :
              p \in Producers}

\* The calls whose record target t's writer has received.
WrittenCalls(t) == {<<written[t][i].logger, written[t][i].args>> : i \in DOMAIN written[t]}

\* No record reached target t's writer twice.
WrittenOnce(t) ==
    \A i, j \in DOMAIN written[t] :
        (written[t][i].logger = written[t][j].logger
            /\ written[t][i].args = written[t][j].args) => i = j

\* Every logging call so far was made before Shutdown was called.
LoggedBeforeShutdown == \A p \in Producers : \A n \in DOMAIN sent[p] : sent[p][n].state = "Running"

\* How many times the error hook was invoked with report k.
Reported(k) == Cardinality({i \in DOMAIN errors : errors[i] = k})

\* C7: with BadLevel (id MaxLevelID + 1) registered in the one target's explicit
\* filter, a call at BadLevel hands no record to enqueue and nothing is queued or
\* written; the error hook has been invoked once per call at BadLevel and not
\* otherwise, and Shutdown, once it has returned, returned no error.
C7_InvalidLevelReportedOnce ==
    (Len(targets) = 1 /\ targets[1].filter = CustomFilter({BadLevel})) =>
        /\ (last.op = "call" /\ last.level = BadLevel) =>
              EventsOf(last.evs, "enqueue") = {}
        /\ queue[1] = << >>
        /\ written[1] = << >>
        /\ Len(errors) = Cardinality(CallsAt({BadLevel}))
        /\ Reported("InvalidLevelID") = Len(errors)
        /\ state = "Stopped" => shutdownErr = "nil"

\* Two calls at BadLevel, then Shutdown returned nil: the hook was invoked twice.
C7_Witness ==
    /\ Len(targets) = 1
    /\ targets[1].filter = CustomFilter({BadLevel})
    /\ Cardinality(CallsAt({BadLevel})) = 2
    /\ state = "Stopped"
    /\ shutdownErr = "nil"
    /\ Len(errors) = 2

OfProducer(q, p) == SelectSeq(q, LAMBDA r : r.logger = p)

\* The records of q are in the order their producer made the calls.
InCallOrder(q) == \A i, k \in DOMAIN q : i < k => q[i].args < q[k].args

Offers(t) ==
    UNION {{<<p, n>> : n \in {k \in DOMAIN sent[p] :
                                 /\ sent[p][k].state = "Running"
                                 /\ Evaluate(targets[t].filter, sent[p][k].level).enabled}} :
              p \in Producers}

\* The calls whose record is in the sequence q.
CallsIn(q) == {<<q[i].logger, q[i].args>> : i \in DOMAIN q}

Min(a, b) == IF a < b THEN a ELSE b

RECURSIVE SumLen(_, _)
SumLen(f, t) == IF t = 0 THEN 0 ELSE Len(f[t]) + SumLen(f, t - 1)

\* C12: while a target of capacity N has dequeued nothing, the first N records
\* offered to it at a level it enables are on its queue and each later one was
\* dropped; every drop was reported through the error hook, once; and with the
\* queue full a further logging call can still be made and return.
C12_DropWhenFull ==
    state = "Running" =>
        /\ \A t \in DOMAIN targets :
              (written[t] = << >> /\ failed[t] = << >>) =>
                  /\ Len(queue[t]) = Min(Cardinality(Offers(t)), targets[t].cap)
                  /\ Len(dropped[t]) = Cardinality(Offers(t)) - Len(queue[t])
                  /\ CallsIn(queue[t]) \cup CallsIn(dropped[t]) = Offers(t)
                  /\ \A i \in DOMAIN queue[t] : \A k \in DOMAIN dropped[t] :
                        queue[t][i].logger = dropped[t][k].logger =>
                            queue[t][i].args < dropped[t][k].args
                  /\ (Len(queue[t]) = targets[t].cap /\ TotalCalls < MaxCalls) =>
                        \A p \in Producers : \A lvl \in ProducerLevels :
                            ENABLED Call(p, "Log", lvl, MaxCalls)
        /\ Reported("QueueFull") = SumLen(dropped, Len(targets))

\* The one target has dequeued nothing: of the N + 1 records offered to it, N are
\* on its queue, the last was dropped, and the drop was reported once.
C12_Witness ==
    /\ Len(targets) = 1
    /\ state = "Running"
    /\ written[1] = << >>
    /\ Cardinality(Offers(1)) = targets[1].cap + 1
    /\ Len(queue[1]) = targets[1].cap
    /\ Len(dropped[1]) = 1
    /\ errors = <<"QueueFull">>

LateCall == last.op = "call" /\ sent[last.p][last.n].state = "Stopped"

\* The calls made once Shutdown had been called, at a level some target enables.
RejectedCalls ==
    UNION {{<<p, n>> : n \in {k \in DOMAIN sent[p] :
                                 /\ sent[p][k].state # "Running"
                                 /\ IsLevelEnabled(sent[p][k].level).Enabled}} :
              p \in Producers}

\* The call just made left its record on no queue and with no writer, raised
\* nothing to its caller, and the dispatcher is Stopped.
RejectedCleanly ==
    /\ state = "Stopped"
    /\ \A t \in DOMAIN targets :
          /\ queue[t] = << >>
          /\ <<last.p, last.n>> \notin CallsIn(written[t])
    /\ panics = 0
    /\ exits = << >>

One(b) == IF b THEN 1 ELSE 0

\* The calls whose record was handed to enqueue: those at a level some target
\* enabled.
Enqueued ==
    UNION {{<<p, n>> : n \in {k \in DOMAIN sent[p] :
                                 IsLevelEnabled(sent[p][k].level).Enabled}} :
              p \in Producers}

\* How often the record of call c is in the sequence q.
Times(q, c) == Cardinality({i \in DOMAIN q : <<q[i].logger, q[i].args>> = c})

C16_ShutdownReturns ==
    /\ (state = "ShuttingDown") ~> (state = "Stopped")
    /\ [](state = "Stopped" =>
            /\ shutdownErr \in {"nil", "timeout"}
            /\ \A t \in DOMAIN targets : queue[t] = << >>
            /\ shutdownErr = "timeout" =>
                  /\ SumLen(abandoned, Len(targets)) > 0
                  /\ Reported("Timeout") = 1
            /\ shutdownErr = "nil" =>
                  /\ SumLen(abandoned, Len(targets)) = 0
                  /\ Reported("Timeout") = 0)

\* The one target's worker never dequeued: Shutdown returned the timeout with the
\* queued record abandoned.
C16_Witness ==
    /\ Len(targets) = 1
    /\ state = "Stopped"
    /\ shutdownErr = "timeout"
    /\ written[1] = << >>
    /\ Len(abandoned[1]) = targets[1].cap
    /\ Reported("Timeout") = 1

\* ------------------------------------ claims on formatter/writer failures
\* Target t's formatter or writer has just failed on a record.
FailedAt(t) == Len(failed'[t]) > Len(failed[t])

Enabling(lvl) == {t \in DOMAIN targets : Evaluate(targets[t].filter, lvl).enabled}

\* Some target that enables lvl requires a stack trace for it.
NeedsStacktrace(lvl) == \E t \in Enabling(lvl) : Evaluate(targets[t].filter, lvl).stacktrace

\* C18: IsLevelEnabled answers enabled exactly when some target's filter enables
\* the level, and needs-stacktrace exactly when some target that enables the
\* level requires a stack trace (a target that does not enable it contributes
\* nothing, and with no target both are false), for the level of every logging
\* call; the call enqueues exactly when the answer is enabled, and its record
\* carries the stack trace answer.
C18_EnabledAndStacktrace ==
    last.op = "call" =>
        LET status == IsLevelEnabled(last.level) IN
        /\ status.Enabled = (Enabling(last.level) # {})
        /\ status.Stacktrace = NeedsStacktrace(last.level)
        /\ Enabling(last.level) = {} => ~status.Stacktrace
        /\ targets = << >> => (~status.Enabled /\ ~status.Stacktrace)
        /\ (EventsOf(last.evs, "enqueue") # {}) = status.Enabled
        /\ \A i \in EventsOf(last.evs, "enqueue") :
              last.evs[i].arg.stacktrace = NeedsStacktrace(last.level)

\* A call at Warn with two targets: the first enables Warn and asks for no stack
\* trace, the second asks for one from Warn on but is enabled from Error on; the
\* record was enqueued without a stack trace.
C18_Witness ==
    /\ Len(targets) = 2
    /\ last.op = "call"
    /\ last.level = WarnLevel
    /\ Enabling(WarnLevel) = {1}
    /\ Evaluate(targets[2].filter, WarnLevel).stacktrace
    /\ EventsOf(last.evs, "enqueue") = {2}
    /\ ~last.evs[2].arg.stacktrace

\* ----------------------------------------------- claims on the JSON keys
\* The members Format emitted for context fields, when they are not grouped.
ContextMembers == {i \in DOMAIN out : out[i].what = "context"}

\* C19: with KeyContextFields empty, the key emitted for a context field is
\* never the key name of the timestamp, level, msg or stacktrace member.
C19_ContextKeyNotReserved ==
    json.KeyContextFields = "" =>
        \A i \in ContextMembers : out[i].key \notin ReservedKeys(json)

\* C20: with KeyContextFields empty and context fields of pairwise distinct
\* keys, none of them of UnknownType, the keys of the members of one emitted
\* object are pairwise distinct.
C20_KeysPairwiseDistinct ==
    (json.KeyContextFields = "" /\ \A i \in DOMAIN ctx : ctx[i].Type # "UnknownType") =>
        \A i, k \in DOMAIN out : i # k => out[i].key # out[k].key

====
